---- MODULE Spec2Model ----
(***************************************************************************)
(* SARIF report assembly of gosec (output/sarif_format.go).                *)
(*                                                                         *)
(* Go strings that the code parses (line-spec, column, file path, root     *)
(* paths, module version) are sequences of one-character strings, so that  *)
(* strings.Split, strconv.Atoi, strings.HasPrefix and strings.Replace are  *)
(* computed character by character.  Strings that are only copied (rule    *)
(* identifier, message, severity name, ...) are TLA+ strings.              *)
(* A Go pointer or error that may be nil is a sequence of length 0 (nil)   *)
(* or 1 (the value).                                                       *)
(***************************************************************************)
EXTENDS Integers, Sequences, FiniteSets, TLC

VARIABLES
    rootPaths,      \* convertToSarifReport argument rootPaths
    issues,         \* convertToSarifReport argument data.Issues
    buildInfo,      \* what debug.ReadBuildInfo() answers in this binary
    pc,             \* position of the caller / of convertToSarifReport
    i,              \* number of data.Issues the range loop has consumed
    rules,          \* local rules
    rulesIndices,   \* local rulesIndices
    lastRuleIndex,  \* local lastRuleIndex
    results,        \* local results
    taxa,           \* local taxa
    weaknesses,     \* local weaknesses
    ret,            \* what the current call returned
    call,           \* which call of the caller is running (1 or 2)
    prev,           \* what the first call returned
    argSeverity,    \* getSarifLevel argument s
    argIssue,       \* parseSarifLocation argument issue
    argRoots,       \* parseSarifLocation argument rootPaths
    outLevel,       \* getSarifLevel result
    outLocation     \* parseSarifLocation result

convVars == <<rootPaths, issues, buildInfo, pc, i, rules, rulesIndices,
              lastRuleIndex, results, taxa, weaknesses, ret, call, prev>>
fnVars == <<argSeverity, argIssue, argRoots, outLevel, outLocation>>
vars == <<convVars, fnVars>>

(***************************************************************************)
(* Bounds                                                                  *)
(***************************************************************************)
MaxIssues == 3      \* longest data.Issues sequence explored

Nil == <<>>
Some(x) == <<x>>

(***************************************************************************)
(* Go standard library, as used by the code                                *)
(***************************************************************************)
Digits == {"0", "1", "2", "3", "4", "5", "6", "7", "8", "9"}

DigitVal(c) ==
    CASE c = "0" -> 0 [] c = "1" -> 1 [] c = "2" -> 2 [] c = "3" -> 3
      [] c = "4" -> 4 [] c = "5" -> 5 [] c = "6" -> 6 [] c = "7" -> 7
      [] c = "8" -> 8 [] c = "9" -> 9

Drop(s, n) == SubSeq(s, n + 1, Len(s))
Take(s, n) == SubSeq(s, 1, n)

\* strings.HasPrefix(s, prefix)
HasPrefix(s, prefix) ==
    /\ Len(s) >= Len(prefix)
    /\ Take(s, Len(prefix)) = prefix

\* strings.Index(s, substr) as a 1-based position, 0 when substr is absent
Index(s, substr) ==
    LET hits == {k \in 1..(Len(s) - Len(substr) + 1) :
                    SubSeq(s, k, k + Len(substr) - 1) = substr}
    IN  IF hits = {} THEN 0 ELSE CHOOSE k \in hits : \A j \in hits : k <= j

\* strings.Replace(s, old, new, 1) for a non-empty old
ReplaceFirst(s, old, new) ==
    LET k == Index(s, old)
    IN  IF k = 0 THEN s
        ELSE Take(s, k - 1) \o new \o Drop(s, k - 1 + Len(old))

\* strings.Split(s, sep) for a one-character sep
RECURSIVE Split(_, _)
Split(s, sep) ==
    LET k == Index(s, <<sep>>)
    IN  IF k = 0 THEN <<s>>
        ELSE <<Take(s, k - 1)>> \o Split(Drop(s, k), sep)

RECURSIVE DecimalValue(_)
DecimalValue(s) ==
    IF s = <<>> THEN 0
    ELSE 10 * DecimalValue(Take(s, Len(s) - 1)) + DigitVal(s[Len(s)])

\* strconv.Atoi(s): an optional sign, then one or more decimal digits.
\* The strings explored are far too short to leave the int range, so the
\* only error is the syntax error.
Atoi(s) ==
    LET signed == s # <<>> /\ s[1] \in {"+", "-"}
        body   == IF signed THEN Drop(s, 1) ELSE s
        valid  == body # <<>> /\ \A k \in 1..Len(body) : body[k] \in Digits
    IN  IF ~valid
        THEN [val |-> 0,
              err |-> Some([Func |-> "Atoi", Num |-> s, Err |-> "invalid syntax"])]
        ELSE [val |-> IF signed /\ s[1] = "-"
                      THEN 0 - DecimalValue(body) ELSE DecimalValue(body),
              err |-> Nil]

(***************************************************************************)
(* sarif_format.go: pure helpers                                           *)
(***************************************************************************)
sarifNone == "none"
sarifNote == "note"
sarifWarning == "warning"
sarifError == "error"
cweAcronym == "CWE"

getSarifLevel_HighIsWarning(s) ==
    CASE s = "LOW" -> sarifWarning
      [] s = "MEDIUM" -> sarifError
      [] s = "HIGH" -> sarifWarning
      [] OTHER -> sarifNote

getSarifLevel(s) ==
    CASE s = "LOW" -> sarifWarning
      [] s = "MEDIUM" -> sarifError
      [] s = "HIGH" -> sarifError
      [] OTHER -> sarifNote

\* uuid.NewMD5(uuid.Nil, []byte(value)).String(): the name-based identifier
\* is a function of the namespace and of the value alone; it is kept as
\* that pair instead of the digest.
uuid3(value) == [namespace |-> "uuid.Nil", name |-> value]

parseSarifRegion_EndIsStart(startLine, endLine, col) ==
    [StartLine |-> startLine, EndLine |-> startLine,
     StartColumn |-> col, EndColumn |-> col]

parseSarifRegion(startLine, endLine, col) ==
    [StartLine |-> startLine, EndLine |-> endLine,
     StartColumn |-> col, EndColumn |-> col]

parseSarifArtifactLocation(filePath) == [Uri |-> filePath]

buildSarifPhysicalLocation(artifactLocation, region) ==
    [ArtifactLocation |-> artifactLocation, Region |-> region]

buildSarifLocation(physicalLocation) == [PhysicalLocation |-> physicalLocation]

\* The range loop of parseSarifLocation over rootPaths, from root k on,
\* with filePath the value of the local so far.
RECURSIVE RelativizeFrom(_, _, _, _)
RelativizeFrom(file, roots, k, filePath) ==
    IF k > Len(roots) THEN filePath
    ELSE RelativizeFrom(file, roots, k + 1,
            IF HasPrefix(file, roots[k])
            THEN ReplaceFirst(file, roots[k] \o <<"/">>, <<>>)
            ELSE filePath)

\* parseSarifLocation: [loc |-> Nil or the location, err |-> Nil or the error]
parseSarifLocation(issue, roots) ==
    LET lines == Split(issue.Line, "-")
        start == Atoi(lines[1])
        end   == IF Len(lines) > 1 THEN Atoi(lines[2]) ELSE start
        col   == Atoi(issue.Col)
        \* var filePath string: the zero value is the empty string
        filePath == RelativizeFrom(issue.File, roots, 1, <<>>)
    IN  IF start.err # Nil THEN [loc |-> Nil, err |-> start.err]
        ELSE IF end.err # Nil THEN [loc |-> Nil, err |-> end.err]
        ELSE IF col.err # Nil THEN [loc |-> Nil, err |-> col.err]
        ELSE [loc |-> Some(buildSarifLocation(buildSarifPhysicalLocation(
                          parseSarifArtifactLocation(filePath),
                          parseSarifRegion(start.val, end.val, col.val)))),
              err |-> Nil]

(***************************************************************************)
(* The weakness catalog, package cwe                                       *)
(***************************************************************************)
\* cwe.Get(id): total; an identifier the catalog does not hold yields the
\* placeholder entry.
cweGet(id) ==
    CASE id = "798" -> [ID |-> "798", Name |-> "Use of Hard-coded Credentials",
                        Description |-> "hard-coded credentials"]
      [] id = "78"  -> [ID |-> "78", Name |-> "OS Command Injection",
                        Description |-> "improper neutralization"]
      [] OTHER      -> [ID |-> "", Name |-> "", Description |-> ""]

(***************************************************************************)
(* sarif_format.go: builders                                               *)
(***************************************************************************)
buildSarifTaxon(id, name, uri, description) ==
    [Id |-> id, Name |-> name, Guid |-> uuid3(name), HelpUri |-> uri,
     ShortDescription |-> [Text |-> description]]

parseSarifTaxon(weakness, url) ==
    buildSarifTaxon(weakness.ID, weakness.Name, url, weakness.Description)

buildSarifReportingDescriptorRelationship(weakness) ==
    [Target |-> [Id |-> weakness.ID, Guid |-> uuid3(weakness.Name),
                 ToolComponent |-> [Name |-> cweAcronym]],
     Kinds |-> <<"superset">>]

\* fmt.Sprintf keeps the order of its pieces; a formatted text is the
\* sequence of the pieces it concatenates.
parseSarifRule(issue, weakness) ==
    [Id |-> issue.RuleID,
     Name |-> issue.What,
     ShortDescription |-> [Text |-> issue.What],
     FullDescription |-> [Text |-> issue.What],
     Help |-> [Text |-> <<issue.What, "\nSeverity: ", issue.Severity,
                          "\nConfidence: ", issue.Confidence, "\n">>],
     Properties |-> [Tags |-> << <<"CWE-", issue.Cwe.ID>>, issue.Severity >>],
     DefaultConfiguration |-> [Level |-> getSarifLevel(issue.Severity)],
     Relationships |-> <<buildSarifReportingDescriptorRelationship(weakness)>>]

buildSarifTool(driver) == [Driver |-> driver]

buildSarifTaxonomies(taxaList) ==
    << [Name |-> cweAcronym,
        Version |-> "4.4",
        ReleaseDateUtc |-> "2021-03-15",
        InformationUri |-> <<"https://cwe.mitre.org/data/published/cwe_v", "4.4", ".pdf/">>,
        DownloadUri |-> <<"https://cwe.mitre.org/data/xml/cwec_v", "4.4", ".xml.zip">>,
        Organization |-> "MITRE",
        ShortDescription |-> [Text |-> "The MITRE Common Weakness Enumeration"],
        Guid |-> uuid3(cweAcronym),
        IsComprehensive |-> TRUE,
        MinimumRequiredLocalizedDataSemanticVersion |-> "4.4",
        Taxa |-> taxaList] >>

\* buildSarifDriver: [panic |-> the slice expression Version[1:] is out of
\* range, driver |-> Nil or the driver]
buildSarifDriver(ruleList, info) ==
    IF info.ok /\ Len(info.Version) < 1
    THEN [panic |-> TRUE, driver |-> Nil]
    ELSE [panic |-> FALSE,
          driver |-> Some(
            [Name |-> "gosec",
             Version |-> IF info.ok THEN Drop(info.Version, 1)
                         ELSE <<"d", "e", "v", "e", "l">>,
             SupportedTaxonomies |->
                << [Name |-> cweAcronym, Index |-> 1, Guid |-> uuid3(cweAcronym)] >>,
             InformationUri |-> "https://github.com/securego/gosec/",
             Rules |-> ruleList])]

buildSarifRun(resultList, taxonomies, tool) ==
    [Results |-> resultList, Taxonomies |-> taxonomies, Tool |-> tool]

buildSarifReport(run) ==
    [Version |-> "2.1.0",
     Schema |-> "https://raw.githubusercontent.com/oasis-tcs/sarif-spec/master/Schemata/sarif-schema-2.1.0.json",
     Runs |-> <<run>>]

(***************************************************************************)
(* Inputs                                                                  *)
(***************************************************************************)
\* A finding whose line-spec and column parse.  Severity and Confidence hold
\* the texts Severity.String() and Confidence.String() yield.
GoodIssue(r, w, v) ==
    [File |-> <<"/", "p", "/", "k", "/", "f">>,
     Line |-> IF v = 1 THEN <<"4", "2">> ELSE <<"1", "0", "-", "1", "5">>,
     Col |-> IF v = 1 THEN <<"3">> ELSE <<"1">>,
     RuleID |-> r,
     Cwe |-> [ID |-> w, URL |-> IF v = 1 THEN "https://cwe/a" ELSE "https://cwe/b"],
     Severity |-> IF v = 1 THEN "LOW" ELSE "HIGH",
     Confidence |-> IF v = 1 THEN "HIGH" ELSE "MEDIUM",
     What |-> IF v = 1 THEN "first message" ELSE "other message"]

GoodIssues ==
    {GoodIssue("G101", "798", 1),
     GoodIssue("G101", "78", 2),
     GoodIssue("G204", "798", 2),
     [GoodIssue("G204", "78", 1) EXCEPT !.Severity = "MEDIUM"],
     [GoodIssue("G101", "0000", 1) EXCEPT !.Severity = "UNDEFINED"]}

BadIssues ==
    {[GoodIssue("G204", "78", 1) EXCEPT !.Line = <<"x">>],
     [GoodIssue("G101", "798", 2) EXCEPT !.Col = <<"y">>]}

IssuePool == GoodIssues \cup BadIssues

RECURSIVE SeqsUpTo(_, _)
SeqsUpTo(S, n) ==
    IF n = 0 THEN {<<>>}
    ELSE LET shorter == SeqsUpTo(S, n - 1)
         IN  shorter \cup {Append(q, x) : q \in {t \in shorter : Len(t) = n - 1}, x \in S}

RootLists ==
    {<< <<"/", "p">> >>, << <<"/", "o">> >>}

\* debug.ReadBuildInfo(): unavailable, or available with the main module's
\* version, which may be empty.
BuildInfos ==
    {[ok |-> FALSE, Version |-> <<>>],
     [ok |-> TRUE, Version |-> <<>>],
     [ok |-> TRUE, Version |-> <<"v", "2", ".", "8">>]}

Severities == {"LOW", "MEDIUM", "HIGH", "UNDEFINED", "", "low", "none", "Medium"}

LineSpecs ==
    {<<"4", "2">>, <<"1", "0", "-", "1", "5">>, <<"x">>, <<"1", "-", "y">>,
     <<"1", "0", "-", "1", "5", "-", "x">>, <<"+", "5">>, <<"-", "5">>,
     <<>>, <<"7", "-">>}

ColSpecs == {<<"3">>, <<"1">>, <<"c">>, <<"-", "2">>}

Files ==
    {<<"/", "p", "/", "k", "/", "f">>,
     <<"/", "p", "j", "/", "f">>,
     <<"/", "p", "j", "/", "p", "/", "f">>}

FnRootLists ==
    {<<>>,
     << <<"/", "p">> >>,
     << <<"/", "o">> >>,
     << <<"/", "p">>, <<"/", "p", "/", "k">> >>,
     << <<"/", "p", "/", "k">>, <<"/", "p">> >>,
     << <<"/", "o">>, <<"/", "p", "/", "k">> >>}

IdleIssue == GoodIssue("G101", "798", 1)

(***************************************************************************)
(* convertToSarifReport, called twice by one caller on the same arguments  *)
(***************************************************************************)
EmptyMap == [k \in {} |-> 0]
MapPut(m, k, v) == [x \in DOMAIN m \cup {k} |-> IF x = k THEN v ELSE m[x]]

ConvIdle ==
    /\ rootPaths = <<>> /\ issues = <<>>
    /\ buildInfo = [ok |-> FALSE, Version |-> <<>>]
    /\ pc = "idle" /\ i = 0
    /\ rules = <<>> /\ rulesIndices = EmptyMap /\ lastRuleIndex = -1
    /\ results = <<>> /\ taxa = <<>> /\ weaknesses = EmptyMap
    /\ ret = [doc |-> Nil, err |-> Nil, panic |-> FALSE]
    /\ call = 0 /\ prev = [doc |-> Nil, err |-> Nil, panic |-> FALSE]

FnIdle ==
    /\ argSeverity = "" /\ argIssue = IdleIssue /\ argRoots = <<>>
    /\ outLevel = Nil /\ outLocation = Nil

Init ==
    /\ rootPaths \in RootLists
    /\ issues \in SeqsUpTo(IssuePool, MaxIssues)
    /\ buildInfo \in BuildInfos
    /\ pc = "enter" /\ i = 0
    /\ rules = <<>> /\ rulesIndices = EmptyMap /\ lastRuleIndex = -1
    /\ results = <<>> /\ taxa = <<>> /\ weaknesses = EmptyMap
    /\ ret = [doc |-> Nil, err |-> Nil, panic |-> FALSE]
    /\ call = 1 /\ prev = [doc |-> Nil, err |-> Nil, panic |-> FALSE]
    /\ FnIdle

\* Lines 32-38: the locals of a call are made afresh.
Enter_KeepsRules ==
    /\ pc = "enter"
    /\ rulesIndices' = EmptyMap
    /\ lastRuleIndex' = -1
    /\ results' = <<>>
    /\ taxa' = <<>>
    /\ weaknesses' = EmptyMap
    /\ i' = 0
    /\ pc' = "loop"
    /\ UNCHANGED <<rules, rootPaths, issues, buildInfo, ret, call, prev, fnVars>>

Enter ==
    /\ pc = "enter"
    /\ rules' = <<>>
    /\ rulesIndices' = EmptyMap
    /\ lastRuleIndex' = -1
    /\ results' = <<>>
    /\ taxa' = <<>>
    /\ weaknesses' = EmptyMap
    /\ i' = 0
    /\ pc' = "loop"
    /\ UNCHANGED <<rootPaths, issues, buildInfo, ret, call, prev, fnVars>>

TaxonStep_NoDedup(issue, ws, tx) ==
    LET weakness == cweGet(issue.Cwe.ID)
    IN  [weaknesses |-> MapPut(ws, issue.Cwe.ID, weakness),
         taxa |-> Append(tx, parseSarifTaxon(weakness, issue.Cwe.URL))]

\* Lines 41-47: the taxon of the issue's weakness, on its first occurrence.
TaxonStep(issue, ws, tx) ==
    IF issue.Cwe.ID \in DOMAIN ws
    THEN [weaknesses |-> ws, taxa |-> tx]
    ELSE LET weakness == cweGet(issue.Cwe.ID)
         IN  [weaknesses |-> MapPut(ws, issue.Cwe.ID, weakness),
              taxa |-> Append(tx, parseSarifTaxon(weakness, issue.Cwe.URL))]

\* Lines 49-55: the rule of the issue, registered on its first occurrence.
RuleStep_Overwrites(issue, ws, ri, last, rs) ==
    LET r == [index |-> IF issue.RuleID \in DOMAIN ri
                        THEN ri[issue.RuleID].index ELSE last + 1,
              rule |-> parseSarifRule(issue, ws[issue.Cwe.ID])]
    IN  [r |-> r,
         rulesIndices |-> MapPut(ri, issue.RuleID, r),
         lastRuleIndex |-> IF issue.RuleID \in DOMAIN ri THEN last ELSE last + 1,
         rules |-> IF issue.RuleID \in DOMAIN ri
                   THEN [rs EXCEPT ![r.index + 1] = r.rule]
                   ELSE Append(rs, r.rule)]

RuleStep_ZeroWeakness(issue, ws, ri, last, rs) ==
    IF issue.RuleID \in DOMAIN ri
    THEN [r |-> ri[issue.RuleID], rulesIndices |-> ri,
          lastRuleIndex |-> last, rules |-> rs]
    ELSE LET r == [index |-> last + 1,
                   rule |-> parseSarifRule(issue,
                               [ID |-> "", Name |-> "", Description |-> ""])]
         IN  [r |-> r,
              rulesIndices |-> MapPut(ri, issue.RuleID, r),
              lastRuleIndex |-> last + 1,
              rules |-> Append(rs, r.rule)]

RuleStep_NoDedup(issue, ws, ri, last, rs) ==
    LET r == [index |-> last + 1,
              rule |-> parseSarifRule(issue, ws[issue.Cwe.ID])]
    IN  [r |-> r,
         rulesIndices |-> MapPut(ri, issue.RuleID, r),
         lastRuleIndex |-> last + 1,
         rules |-> Append(rs, r.rule)]

RuleStep_IndexFromOne(issue, ws, ri, last, rs) ==
    IF issue.RuleID \in DOMAIN ri
    THEN [r |-> ri[issue.RuleID], rulesIndices |-> ri,
          lastRuleIndex |-> last, rules |-> rs]
    ELSE LET r == [index |-> last + 2,
                   rule |-> parseSarifRule(issue, ws[issue.Cwe.ID])]
         IN  [r |-> r,
              rulesIndices |-> MapPut(ri, issue.RuleID, r),
              lastRuleIndex |-> last + 1,
              rules |-> Append(rs, r.rule)]

RuleStep(issue, ws, ri, last, rs) ==
    IF issue.RuleID \in DOMAIN ri
    THEN [r |-> ri[issue.RuleID], rulesIndices |-> ri,
          lastRuleIndex |-> last, rules |-> rs]
    ELSE LET r == [index |-> last + 1,
                   rule |-> parseSarifRule(issue, ws[issue.Cwe.ID])]
         IN  [r |-> r,
              rulesIndices |-> MapPut(ri, issue.RuleID, r),
              lastRuleIndex |-> last + 1,
              rules |-> Append(rs, r.rule)]

NewResult_RuleDefaultLevel(r, issue, location) ==
    [RuleId |-> r.rule.Id,
     RuleIndex |-> r.index,
     Level |-> r.rule.DefaultConfiguration.Level,
     Message |-> [Text |-> issue.What],
     Locations |-> <<location>>]

\* Lines 62-70
NewResult(r, issue, location) ==
    [RuleId |-> r.rule.Id,
     RuleIndex |-> r.index,
     Level |-> getSarifLevel(issue.Severity),
     Message |-> [Text |-> issue.What],
     Locations |-> <<location>>]

\* Lines 40-73: one iteration of the range loop over data.Issues.
Iterate ==
    /\ pc = "loop"
    /\ i < Len(issues)
    /\ LET issue == issues[i + 1]
           t == TaxonStep(issue, weaknesses, taxa)
           u == RuleStep(issue, t.weaknesses, rulesIndices, lastRuleIndex, rules)
           l == parseSarifLocation(issue, rootPaths)
       IN  /\ weaknesses' = t.weaknesses
           /\ taxa' = t.taxa
           /\ rulesIndices' = u.rulesIndices
           /\ lastRuleIndex' = u.lastRuleIndex
           /\ rules' = u.rules
           /\ IF l.err # Nil
              THEN /\ ret' = [doc |-> Nil, err |-> l.err, panic |-> FALSE]
                   /\ pc' = "returned"
                   /\ UNCHANGED <<results, i>>
              ELSE /\ results' = Append(results, NewResult(u.r, issue, l.loc[1]))
                   /\ i' = i + 1
                   /\ UNCHANGED <<ret, pc>>
    /\ UNCHANGED <<rootPaths, issues, buildInfo, call, prev, fnVars>>

\* Lines 75-79: the loop is over; the document is built and returned, unless
\* building the driver panics.
Assemble ==
    /\ pc = "loop"
    /\ i = Len(issues)
    /\ LET d == buildSarifDriver(rules, buildInfo)
       IN  IF d.panic
           THEN /\ ret' = [doc |-> Nil, err |-> Nil, panic |-> TRUE]
                /\ pc' = "returned"
           ELSE /\ ret' = [doc |-> Some(buildSarifReport(buildSarifRun(results,
                                     buildSarifTaxonomies(taxa),
                                     buildSarifTool(d.driver[1])))),
                           err |-> Nil, panic |-> FALSE]
                /\ pc' = "returned"
    /\ UNCHANGED <<rootPaths, issues, buildInfo, i, rules, rulesIndices,
                   lastRuleIndex, results, taxa, weaknesses, call, prev, fnVars>>

\* The caller keeps the outcome and converts the same arguments again.
CallAgain ==
    /\ pc = "returned"
    /\ call = 1
    /\ prev' = ret
    /\ ret' = [doc |-> Nil, err |-> Nil, panic |-> FALSE]
    /\ call' = 2
    /\ pc' = "enter"
    /\ UNCHANGED <<rootPaths, issues, buildInfo, i, rules, rulesIndices,
                   lastRuleIndex, results, taxa, weaknesses, fnVars>>

Next == Enter \/ Iterate \/ Assemble \/ CallAgain

Spec == Init /\ [][Next]_vars

(***************************************************************************)
(* getSarifLevel and parseSarifLocation applied to drawn arguments         *)
(***************************************************************************)
FnInit ==
    /\ ConvIdle
    /\ argSeverity \in Severities
    /\ argIssue \in {[IdleIssue EXCEPT !.Line = l, !.Col = c, !.File = f] :
                        l \in LineSpecs, c \in ColSpecs, f \in Files}
    /\ argRoots \in FnRootLists
    /\ outLevel = Nil
    /\ outLocation = Nil

CallGetSarifLevel ==
    /\ outLevel = Nil
    /\ outLevel' = Some(getSarifLevel(argSeverity))
    /\ UNCHANGED <<convVars, argSeverity, argIssue, argRoots, outLocation>>

CallParseSarifLocation ==
    /\ outLocation = Nil
    /\ outLocation' = Some(parseSarifLocation(argIssue, argRoots))
    /\ UNCHANGED <<convVars, argSeverity, argIssue, argRoots, outLevel>>

FnNext == CallGetSarifLevel \/ CallParseSarifLocation

FnSpec == FnInit /\ [][FnNext]_vars

(***************************************************************************)
(* Vocabulary of the properties                                            *)
(***************************************************************************)
RuleKeys == [k \in 1..Len(issues) |-> issues[k].RuleID]
CweKeys == [k \in 1..Len(issues) |-> issues[k].Cwe.ID]

\* position k holds the first occurrence of its key
FirstAt(keys, k) == \A j \in 1..(k - 1) : keys[j] # keys[k]
\* how many distinct keys occur among the first k positions
DistinctUpTo(keys, k) == Cardinality({keys[j] : j \in 1..k})
\* the position of the first occurrence of the key at position k
FirstOf(keys, k) == CHOOSE j \in 1..k : keys[j] = keys[k] /\ FirstAt(keys, j)

Succeeded == pc = "returned" /\ ret.doc # Nil
Run == ret.doc[1].Runs[1]
DriverRules == Run.Tool.Driver.Rules
DocTaxa == Run.Taxonomies[1].Taxa

\* C1: every result's RuleIndex is the zero-based position, in the final
\* driver rule list, of the one rule descriptor whose Id is the result's RuleId.
C1_RuleIndexIsPosition ==
    Succeeded =>
        \A k \in 1..Len(Run.Results) :
            LET res == Run.Results[k]
            IN  /\ res.RuleIndex + 1 \in 1..Len(DriverRules)
                /\ \A p \in 1..Len(DriverRules) :
                       DriverRules[p].Id = res.RuleId <=> p = res.RuleIndex + 1

C1_Witness ==
    /\ Succeeded
    /\ Len(Run.Results) = 3
    /\ Run.Results[1].RuleIndex = 0
    /\ Run.Results[2].RuleIndex = 1
    /\ Run.Results[3].RuleIndex = 0

\* C2: the rule list holds one descriptor per distinct rule identifier, in
\* the order of first occurrence; the index of an identifier is the number of
\* distinct identifiers seen before it, at every point of the pass and in the
\* document.
C2_RulesByFirstOccurrence ==
    /\ pc = "loop" =>
          /\ DOMAIN rulesIndices = {RuleKeys[j] : j \in 1..i}
          /\ Len(rules) = DistinctUpTo(RuleKeys, i)
          /\ lastRuleIndex = Len(rules) - 1
          /\ \A k \in 1..i :
                /\ rulesIndices[RuleKeys[k]].index
                      = DistinctUpTo(RuleKeys, FirstOf(RuleKeys, k)) - 1
                /\ rules[rulesIndices[RuleKeys[k]].index + 1].Id = RuleKeys[k]
    /\ Succeeded =>
          /\ Len(DriverRules) = DistinctUpTo(RuleKeys, Len(issues))
          /\ \A k \in 1..Len(issues) :
                FirstAt(RuleKeys, k) =>
                    DriverRules[DistinctUpTo(RuleKeys, k)].Id = RuleKeys[k]

C2_Witness ==
    /\ Succeeded
    /\ Len(issues) = 3
    /\ RuleKeys = <<"G204", "G101", "G204">>
    /\ Len(DriverRules) = 2
    /\ DriverRules[1].Id = "G204"
    /\ DriverRules[2].Id = "G101"

\* C3: the taxa list holds one taxon per distinct weakness identifier, in the
\* order of first occurrence, built from the first finding that carries the
\* identifier; a later occurrence adds nothing.
C3_TaxaByFirstOccurrence ==
    /\ pc = "loop" =>
          /\ DOMAIN weaknesses = {CweKeys[j] : j \in 1..i}
          /\ Len(taxa) = DistinctUpTo(CweKeys, i)
    /\ Succeeded =>
          /\ Len(DocTaxa) = DistinctUpTo(CweKeys, Len(issues))
          /\ \A k \in 1..Len(issues) :
                FirstAt(CweKeys, k) =>
                    LET t == DocTaxa[DistinctUpTo(CweKeys, k)]
                    IN  /\ t.Id = cweGet(CweKeys[k]).ID
                        /\ t.Name = cweGet(CweKeys[k]).Name
                        /\ t.HelpUri = issues[k].Cwe.URL

C3_Witness ==
    /\ Succeeded
    /\ Len(issues) = 3
    /\ CweKeys = <<"78", "798", "78">>
    /\ issues[1].Cwe.URL # issues[3].Cwe.URL
    /\ Len(DocTaxa) = 2
    /\ DocTaxa[1].Id = "78"
    /\ DocTaxa[2].Id = "798"

\* the findings whose line-spec or column does not parse
Unparsable == {k \in 1..Len(issues) :
                  parseSarifLocation(issues[k], rootPaths).err # Nil}
FirstUnparsable == CHOOSE k \in Unparsable : \A j \in Unparsable : k <= j

\* C4: a call returns an error and no document exactly when some finding
\* fails to parse, the error being that of the first such finding and no
\* later finding being processed; otherwise it returns a document and no
\* error; it never returns both.
C4_ErrorIffParseFailure ==
    pc = "returned" =>
        /\ ~(ret.doc # Nil /\ ret.err # Nil)
        /\ Unparsable # {} =>
              /\ ret.doc = Nil
              /\ ret.err = parseSarifLocation(issues[FirstUnparsable], rootPaths).err
              /\ i = FirstUnparsable - 1
              /\ Len(results) = FirstUnparsable - 1
        /\ Unparsable = {} => (ret.doc # Nil /\ ret.err = Nil)

Location == outLocation[1].loc[1].PhysicalLocation
Located == outLocation # Nil /\ outLocation[1].err = Nil
Matching == {k \in 1..Len(argRoots) : HasPrefix(argIssue.File, argRoots[k])}
FirstMatching == CHOOSE k \in Matching : \A j \in Matching : k <= j
LastMatching == CHOOSE k \in Matching : \A j \in Matching : k >= j

\* C5: when several roots are prefixes of the file path, the URI is the one
\* computed from the first matching root in list order.
C5_FirstMatchWins ==
    (Located /\ Matching # {}) =>
        Location.ArtifactLocation.Uri
            = ReplaceFirst(argIssue.File, argRoots[FirstMatching] \o <<"/">>, <<>>)

\* C6: when no root is a prefix of the file path, the URI is the file path
\* unchanged.
C6_NoMatchKeepsPath ==
    (Located /\ Matching = {}) =>
        Location.ArtifactLocation.Uri = argIssue.File

\* C7: getSarifLevel maps "LOW" to "warning", "MEDIUM" and "HIGH" to "error",
\* every other text to "note", and never yields "none".
C7_SeverityMapping ==
    outLevel # Nil =>
        /\ argSeverity = "LOW" => outLevel[1] = "warning"
        /\ argSeverity = "MEDIUM" => outLevel[1] = "error"
        /\ argSeverity = "HIGH" => outLevel[1] = "error"
        /\ argSeverity \notin {"LOW", "MEDIUM", "HIGH"} => outLevel[1] = "note"
        /\ outLevel[1] # "none"

C7_Witness ==
    \/ outLevel = <<"note">> /\ argSeverity = ""
    \/ outLevel = <<"error">> /\ argSeverity = "HIGH"

\* C8: the region of a finding that parses: the start line is the first
\* dash-separated segment of the line-spec, the end line the second segment
\* when there is one and the start line otherwise, and both columns are the
\* parsed column.
C8_RegionFromLineSpec ==
    Located =>
        LET region == Location.Region
            segs == Split(argIssue.Line, "-")
        IN  /\ region.StartLine = Atoi(segs[1]).val
            /\ region.EndLine = IF Len(segs) > 1 THEN Atoi(segs[2]).val
                                ELSE region.StartLine
            /\ region.StartColumn = Atoi(argIssue.Col).val
            /\ region.EndColumn = region.StartColumn
            /\ (argIssue.Line = <<"4", "2">> /\ argIssue.Col = <<"3">>) =>
                   region = [StartLine |-> 42, EndLine |-> 42,
                             StartColumn |-> 3, EndColumn |-> 3]
            /\ (argIssue.Line = <<"1", "0", "-", "1", "5">> /\ argIssue.Col = <<"1">>) =>
                   region = [StartLine |-> 10, EndLine |-> 15,
                             StartColumn |-> 1, EndColumn |-> 1]

C8_Witness ==
    /\ Located
    /\ argIssue.Line = <<"1", "0", "-", "1", "5">>
    /\ argIssue.Col = <<"1">>
    /\ Location.Region.StartLine = 10
    /\ Location.Region.EndLine = 15

\* C9: a rule identifier has one descriptor, and its relationship target,
\* tags, texts and default level are those of the first finding that carries
\* the identifier; later findings leave the descriptor as it is.
DescribedBy(rule, issue) ==
    /\ rule.Id = issue.RuleID
    /\ rule.Name = issue.What
    /\ rule.ShortDescription.Text = issue.What
    /\ rule.FullDescription.Text = issue.What
    /\ rule.Help.Text = <<issue.What, "\nSeverity: ", issue.Severity,
                          "\nConfidence: ", issue.Confidence, "\n">>
    /\ rule.Properties.Tags = << <<"CWE-", issue.Cwe.ID>>, issue.Severity >>
    /\ rule.DefaultConfiguration.Level
          = (IF issue.Severity = "LOW" THEN "warning"
             ELSE IF issue.Severity \in {"MEDIUM", "HIGH"} THEN "error" ELSE "note")
    /\ Len(rule.Relationships) = 1
    /\ rule.Relationships[1].Target.Id = cweGet(issue.Cwe.ID).ID
    /\ rule.Relationships[1].Target.Guid = uuid3(cweGet(issue.Cwe.ID).Name)

C9_FirstSeenRuleWins ==
    /\ pc = "loop" =>
          \A k \in 1..i :
              DescribedBy(rulesIndices[RuleKeys[k]].rule,
                          issues[FirstOf(RuleKeys, k)])
    /\ Succeeded =>
          \A k \in 1..Len(issues) :
              /\ Cardinality({p \in 1..Len(DriverRules) :
                                 DriverRules[p].Id = RuleKeys[k]}) = 1
              /\ \A p \in 1..Len(DriverRules) :
                     DriverRules[p].Id = RuleKeys[k] =>
                         DescribedBy(DriverRules[p], issues[FirstOf(RuleKeys, k)])

C9_Witness ==
    /\ Succeeded
    /\ Len(issues) >= 2
    /\ issues[1].RuleID = issues[2].RuleID
    /\ issues[1].Cwe.ID = "798"
    /\ issues[2].Cwe.ID = "78"
    /\ issues[1].What # issues[2].What
    /\ Len(DriverRules) = 1
    /\ DriverRules[1].Relationships[1].Target.Id = "798"

\* C10: the second call on the same arguments returns what the first call
\* returned, and starts from locals that hold nothing of the first call.
C10_Deterministic ==
    /\ (call = 2 /\ pc = "returned") => ret = prev
    /\ (pc = "loop" /\ i = 0) =>
          /\ rules = <<>> /\ results = <<>> /\ taxa = <<>>
          /\ DOMAIN rulesIndices = {} /\ DOMAIN weaknesses = {}
          /\ lastRuleIndex = -1

C10_Witness ==
    /\ call = 2
    /\ Succeeded
    /\ ret = prev
    /\ Len(DriverRules) = 2
    /\ Len(DocTaxa) = 2
    /\ Len(Run.Results) = 3

\* s ends with t
HasSuffix(s, t) == Len(s) >= Len(t) /\ Drop(s, Len(s) - Len(t)) = t
\* a text of one or more decimal digits, without a sign
IsUnsignedNumber(s) == s # <<>> /\ \A k \in 1..Len(s) : s[k] \in Digits

\* C11: a line-spec is accepted only if every dash-separated segment of it
\* is an unsigned decimal number; a third or later segment that is no number,
\* or a segment with a sign, makes the conversion fail.
C11_EverySegmentValidated ==
    Located =>
        LET segs == Split(argIssue.Line, "-")
        IN  \A k \in 1..Len(segs) : IsUnsignedNumber(segs[k])

\* C12: the URI is always a suffix of the file path, and with one root R
\* such that the path starts with R and "/", it is the path without that
\* leading R and "/".
C12_StripsLeadingRootOnce ==
    Located =>
        /\ HasSuffix(argIssue.File, Location.ArtifactLocation.Uri)
        /\ (Len(argRoots) = 1 /\ HasPrefix(argIssue.File, argRoots[1] \o <<"/">>)) =>
               Location.ArtifactLocation.Uri
                   = Drop(argIssue.File, Len(argRoots[1]) + 1)

\* C13: a returned document has one run; its results are one per finding, in
\* input order, the k-th carrying the k-th finding's rule identifier and
\* message, one location, and the level of that finding's own severity.
C13_OneResultPerFinding ==
    Succeeded =>
        /\ Len(ret.doc[1].Runs) = 1
        /\ Len(Run.Results) = Len(issues)
        /\ \A k \in 1..Len(issues) :
              LET res == Run.Results[k]
              IN  /\ res.RuleId = issues[k].RuleID
                  /\ res.Message.Text = issues[k].What
                  /\ Len(res.Locations) = 1
                  /\ res.Locations[1]
                        = parseSarifLocation(issues[k], rootPaths).loc[1]
                  /\ res.Level
                        = (IF issues[k].Severity = "LOW" THEN "warning"
                           ELSE IF issues[k].Severity \in {"MEDIUM", "HIGH"}
                           THEN "error" ELSE "note")

C13_Witness ==
    /\ Succeeded
    /\ Len(issues) = 2
    /\ issues[1].RuleID = issues[2].RuleID
    /\ issues[1].Severity = "LOW"
    /\ issues[2].Severity = "HIGH"
    /\ Run.Results[2].Level = "error"
    /\ DriverRules[Run.Results[2].RuleIndex + 1].DefaultConfiguration.Level = "warning"

\* C14: building the driver never aborts the call, and the driver's version
\* is the one of the build information when there is one, "devel" otherwise.
C14_DriverAlwaysBuilt ==
    pc = "returned" =>
        /\ ~ret.panic
        /\ Succeeded =>
              Run.Tool.Driver.Version
                  = (IF buildInfo.ok THEN Drop(buildInfo.Version, 1)
                     ELSE <<"d", "e", "v", "e", "l">>)

\* C15: the relationship target of every rule descriptor has the Id and the
\* Guid of a taxon of the taxa list, during the pass and in the document.
LinkedIn(ruleList, taxaList) ==
    \A p \in 1..Len(ruleList) :
        /\ Len(ruleList[p].Relationships) = 1
        /\ \E t \in 1..Len(taxaList) :
              /\ taxaList[t].Id = ruleList[p].Relationships[1].Target.Id
              /\ taxaList[t].Guid = ruleList[p].Relationships[1].Target.Guid

C15_RuleTargetsAreTaxa ==
    /\ pc = "loop" => LinkedIn(rules, taxa)
    /\ Succeeded => LinkedIn(DriverRules, DocTaxa)

C15_Witness ==
    /\ Succeeded
    /\ Len(DriverRules) = 2
    /\ Len(DocTaxa) = 2
    /\ Len(issues) = 3
    /\ issues[2].RuleID = issues[1].RuleID
    /\ issues[2].Cwe.ID # issues[1].Cwe.ID
    /\ DriverRules[1].Relationships[1].Target.Id = DocTaxa[1].Id
    /\ DriverRules[2].Relationships[1].Target.Id = DocTaxa[2].Id
    /\ DriverRules[2].Relationships[1].Target.Guid = DocTaxa[2].Guid
    /\ DocTaxa[1].Id # DocTaxa[2].Id

\* C16: every supported-taxonomy reference of the driver has an Index that is
\* a zero-based position of the run's taxonomies list, and the taxonomy group
\* at that position has the reference's name and Guid.
C16_TaxonomyReferenceResolves ==
    Succeeded =>
        \A k \in 1..Len(Run.Tool.Driver.SupportedTaxonomies) :
            LET ref == Run.Tool.Driver.SupportedTaxonomies[k]
            IN  /\ ref.Index + 1 \in 1..Len(Run.Taxonomies)
                /\ Run.Taxonomies[ref.Index + 1].Name = ref.Name
                /\ Run.Taxonomies[ref.Index + 1].Guid = ref.Guid

====
